---- MODULE Spec2Model ----
(***************************************************************************)
(* Model of ftm/analysis/mc_analysis.py: the Monte Carlo engine            *)
(* mc_analysis (sampling, bounded retry, metric collection, year-anchored  *)
(* metrics, slow-takeoff classification, aggregation), the takeoff-        *)
(* probability tables built from its result, and the pure functions        *)
(* n_year_doubling_before_m_year_doubling and get_value_at_year.           *)
(*                                                                         *)
(* Python values are tagged records: a number is [k |-> "num", v |-> n],   *)
(* NaN is [k |-> "nan", v |-> 0] and None is [k |-> "none", v |-> 0].      *)
(* A time step is the rational num/den years.                              *)
(***************************************************************************)
EXTENDS Integers, Sequences, FiniteSets, TLC

VARIABLES
  \* ---- mc_analysis ----
  pc,                     \* position inside mc_analysis
  n_trials, max_retries,  \* arguments of the call
  trial,                  \* loop variable of "for trial in range(n_trials)"
  i,                      \* attempts of the current slot started so far
  sample,                 \* the local `sample` (last draw of params_dist.rvs)
  model,                  \* the local `model` (last primary run built)
  no_automation_model,    \* the local `no_automation_model`
  samples,                \* list of retained samples
  scalar_metrics,         \* metric name -> list of values
  state_metrics,          \* state metric name -> list of series
  metrics_before_full_automation_values, \* <<metric, year>> -> list
  last_valid_indices,     \* list of model.t_idx
  slow_takeoff_count,
  error,                  \* exception that left mc_analysis, "" if none
  results,                \* the returned McAnalysisResults, or NoResults
  n_attempts,             \* primary SimulateTakeOff attempts made
  n_baseline_runs,        \* counterfactual SimulateTakeOff runs started
  last_outcome,           \* what the last attempt of the retry loop did
  numpy_quantile_of_empty, \* what np.quantile does on an empty array, once seen
  \* ---- consumers of the returned bundle ----
  takeoff_probability_table, \* the table of write_takeoff_probability_table
  report,                 \* what write_mc_analysis_report shows of the bundle
  \* ---- get_value_at_year, called on its own ----
  g_pc, g_year, g_model, g_no_automation_model, g_value,
  \* ---- n_year_doubling_before_m_year_doubling, called on its own ----
  d_pc, d_array, d_step, d_n, d_m, d_result

mc_vars == <<pc, n_trials, max_retries, trial, i, sample, model,
             no_automation_model, samples, scalar_metrics, state_metrics,
             metrics_before_full_automation_values, last_valid_indices,
             slow_takeoff_count, error, results, n_attempts, n_baseline_runs,
             last_outcome, numpy_quantile_of_empty>>
d_vars == <<d_pc, d_array, d_step, d_n, d_m, d_result>>
t_vars == <<takeoff_probability_table, report>>
g_vars == <<g_pc, g_year, g_model, g_no_automation_model, g_value>>
vars == <<mc_vars, d_vars, t_vars, g_vars>>

----------------------------------------------------------------------------
(* Values *)

Num(n) == [k |-> "num", v |-> n]
NaN == [k |-> "nan", v |-> 0]
None == [k |-> "none", v |-> 0]

\* np.isnan(x): a TypeError on None
IsNan(x) == x.k = "nan"
IsNone(x) == x.k = "none"
IsNum(x) == x.k = "num"

Last(s) == s[Len(s)]

----------------------------------------------------------------------------
(* n_year_doubling_before_m_year_doubling and its helpers *)

\* Python 3 round(p/q) for p >= 0, q > 0: round half to even
RoundHalfEven(p, q) ==
  LET f == p \div q
      r == p % q
  IN  IF 2 * r < q THEN f
      ELSE IF 2 * r > q THEN f + 1
      ELSE IF f % 2 = 0 THEN f ELSE f + 1

\* round(n / t_step)
Delta(n, t_step) == RoundHalfEven(n * t_step.den, t_step.num)

\* array[delta:]
SliceFrom(array, delta) == SubSeq(array, delta + 1, Len(array))

\* array[:-delta]; in Python array[:-0] is array[:0], the empty array
SliceUntilMinus(array, delta) ==
  IF delta = 0 THEN <<>> ELSE SubSeq(array, 1, Len(array) - delta)

\* numpy broadcasting of two 1-d shapes: the result length, or -1 (ValueError)
BroadcastLen(la, lb) ==
  IF la = lb THEN la
  ELSE IF la = 1 THEN lb
  ELSE IF lb = 1 THEN la
  ELSE -1

\* a / b >= 2 on floats: x/0 is inf for x > 0 and nan for x = 0
RatioAtLeast2(a, b) == IF b = 0 THEN a > 0 ELSE a >= 2 * b

\* num[...] / den[...] >= 2, elementwise with broadcasting
DoublingMask(num, den) ==
  LET len == BroadcastLen(Len(num), Len(den))
  IN  [j \in 1..len |->
         RatioAtLeast2(IF Len(num) = 1 THEN num[1] ELSE num[j],
                       IF Len(den) = 1 THEN den[1] ELSE den[j])]

\* SimulateTakeOff.first_index(condition): the 0-based index of the first
\* True, None (here -1) when there is none
first_index(condition) ==
  IF \E j \in 1..Len(condition) : condition[j]
    THEN (CHOOSE j \in 1..Len(condition) :
            condition[j] /\ \A h \in 1..(j - 1) : ~condition[h]) - 1
    ELSE -1

\* The index of the sample that ends the first k-year doubling, not of the
\* one that starts it
DoublingIndex_Completion(array, t_step, k) ==
  LET delta == Delta(k, t_step)
      num == SliceFrom(array, delta)
      den == SliceUntilMinus(array, delta)
  IN  IF BroadcastLen(Len(num), Len(den)) = -1
        THEN [ok |-> FALSE, idx |-> -1]
        ELSE IF first_index(DoublingMask(num, den)) = -1
          THEN [ok |-> TRUE, idx |-> -1]
          ELSE [ok |-> TRUE, idx |-> first_index(DoublingMask(num, den)) + delta]

\* idx of the first k-year doubling (index into the ratio array), or the
\* string "ValueError" when the division cannot broadcast
DoublingIndex(array, t_step, k) ==
  LET delta == Delta(k, t_step)
      num == SliceFrom(array, delta)
      den == SliceUntilMinus(array, delta)
  IN  IF BroadcastLen(Len(num), Len(den)) = -1
        THEN [ok |-> FALSE, idx |-> -1]
        ELSE [ok |-> TRUE, idx |-> first_index(DoublingMask(num, den))]

\* The comparison of the two indices without the n-year gap
n_year_doubling_before_m_year_doubling_AnyGap(array, t_step, n, m) ==
  LET idx_n == DoublingIndex(array, t_step, n)
      idx_m == DoublingIndex(array, t_step, m)
  IN  IF ~idx_n.ok \/ ~idx_m.ok THEN "ValueError"
      ELSE IF idx_m.idx = -1 THEN "True"
      ELSE IF idx_n.idx = -1 THEN "False"
      ELSE IF idx_m.idx - idx_n.idx >= 0 THEN "True" ELSE "False"

\* The result is "True", "False" or "ValueError" (the exception raised)
n_year_doubling_before_m_year_doubling(array, t_step, n, m) ==
  LET idx_n == DoublingIndex(array, t_step, n)
      idx_m == DoublingIndex(array, t_step, m)
  IN  IF ~idx_n.ok \/ ~idx_m.ok THEN "ValueError"
      ELSE IF idx_m.idx = -1 THEN "True"
      ELSE IF idx_n.idx = -1 THEN "False"
      ELSE IF (idx_m.idx - idx_n.idx) * t_step.num >= n * t_step.den
        THEN "True" ELSE "False"

----------------------------------------------------------------------------
(* The function called on its own, on bounded inputs *)

MaxLen == 4      \* longest series
MaxVal == 2      \* series values are 0..MaxVal
MaxN == 4        \* n and m range over 1..MaxN

\* t_step values: 1 year, 2 years, half a year
Steps == {[num |-> 1, den |-> 1], [num |-> 2, den |-> 1], [num |-> 1, den |-> 2]}

Series == UNION {[1..len -> 0..MaxVal] : len \in 0..MaxLen}

\* d_vars while the function is not being called on its own
DIdle ==
  /\ d_pc = "idle"
  /\ d_array = <<>>
  /\ d_step = [num |-> 1, den |-> 1]
  /\ d_n = 1
  /\ d_m = 1
  /\ d_result = ""

DInit ==
  /\ d_pc = "call"
  /\ d_array \in Series
  /\ d_step \in Steps
  /\ d_n \in 1..MaxN
  /\ d_m \in 1..MaxN
  /\ d_result = ""

\* the call returns a boolean
DoublingReturn ==
  /\ d_pc = "call"
  /\ n_year_doubling_before_m_year_doubling(d_array, d_step, d_n, d_m) # "ValueError"
  /\ d_result' = n_year_doubling_before_m_year_doubling(d_array, d_step, d_n, d_m)
  /\ d_pc' = "returned"
  /\ UNCHANGED <<d_array, d_step, d_n, d_m>>
  /\ UNCHANGED mc_vars
  /\ UNCHANGED t_vars
  /\ UNCHANGED g_vars

\* the call raises
DoublingRaise ==
  /\ d_pc = "call"
  /\ n_year_doubling_before_m_year_doubling(d_array, d_step, d_n, d_m) = "ValueError"
  /\ d_result' = "ValueError"
  /\ d_pc' = "raised"
  /\ UNCHANGED <<d_array, d_step, d_n, d_m>>
  /\ UNCHANGED mc_vars
  /\ UNCHANGED t_vars
  /\ UNCHANGED g_vars

----------------------------------------------------------------------------
(* mc_analysis: configuration and collaborators *)

MaxTrials == 2    \* n_trials ranges over 0..MaxTrials
MaxRetries == 2   \* max_retries ranges over 0..MaxRetries

\* get_option('t_start', 2022), get_option('t_end', 2100)
t_start == 2022
t_end == 2100

\* get_option('t_step', ...): the model runs on whole-year steps so that the
\* 4-year and 1-year windows of is_slow_takeoff fit short series
t_step == [num |-> 1, den |-> 1]

\* SimulateTakeOff.timeline_metrics, SimulateTakeOff.takeoff_metrics (the
\* names mc_analysis itself refers to) and the keys of state_metrics
TimelineMetrics == {"automation_gns_100%"}
TakeoffMetrics == {"full_automation_gns"}
ScalarMetricNames == TimelineMetrics \cup TakeoffMetrics
StateMetricNames == {"biggest_training_run", "gwp"}

years_before_full_automation == {0, 1, 2, 5, 10}

DoublingTimeMetrics ==
  {"gwp doubling time (years)", "hardware_performance doubling time (years)",
   "software doubling time (years)"}
ModelVarMetrics ==
  {"biggest_training_run", "frac_compute_training", "frac_gwp_compute"}
metrics_before_full_automation == DoublingTimeMetrics \cup ModelVarMetrics

\* What a primary run can report for 'automation_gns_100%' together with the
\* year it stopped at (t_end_min = t_end lets a run stop later than t_end):
\* never reached; reached two years after t_start; reached after t_end
AutoOutcomes ==
  {[auto |-> NaN, t_end |-> t_end],
   [auto |-> NaN, t_end |-> t_end + 5],
   [auto |-> Num(t_start + 2), t_end |-> t_end],
   [auto |-> Num(t_end + 2), t_end |-> t_end + 5]}

\* What a primary run can report for the takeoff metric
TakeoffOutcomes == {NaN, None, Num(3), Num(-1)}

\* Growth trajectories of a primary run: gwp, the valid length t_idx and
\* n_timesteps. With a step of one year: a 4-year doubling well before the
\* 1-year doubling; the two too close; the same cut before the 1-year
\* doubling; a 1-year doubling and no 4-year window
Growths ==
  {[gwp |-> <<2, 3, 3, 3, 4, 8>>, t_idx |-> 6, n_timesteps |-> 6],
   [gwp |-> <<2, 2, 2, 2, 2, 4>>, t_idx |-> 6, n_timesteps |-> 6],
   [gwp |-> <<2, 2, 2, 2, 2, 4>>, t_idx |-> 5, n_timesteps |-> 6],
   [gwp |-> <<2, 4, 8, 16, 32, 64>>, t_idx |-> 3, n_timesteps |-> 6]}

\* A gwp that does not have n_timesteps entries
MisshapenGrowth == [gwp |-> <<2, 4>>, t_idx |-> 2, n_timesteps |-> 6]

Sample(a, t, g) ==
  [fault |-> "none", auto |-> a.auto, t_end |-> a.t_end, takeoff |-> t,
   growth |-> g]

\* A parameter sample, named by what the deterministic simulation makes of
\* it: fault is "none", or where SimulateTakeOff raises on it. The takeoff
\* metric does not interact with the anchor event or the growth trajectory,
\* so it varies on one of their combinations only
TypicalAuto == [auto |-> NaN, t_end |-> t_end]
TypicalGrowth == [gwp |-> <<2, 2, 2, 2, 2, 4>>, t_idx |-> 6, n_timesteps |-> 6]

GoodSamples ==
  {Sample(a, Num(3), g) : a \in AutoOutcomes, g \in Growths}
  \cup {Sample(TypicalAuto, t, TypicalGrowth) : t \in TakeoffOutcomes}
  \cup {Sample([auto |-> None, t_end |-> t_end], Num(3), TypicalGrowth),
        Sample(TypicalAuto, Num(3), MisshapenGrowth)}

BadSamples ==
  {[fault |-> f, auto |-> NaN, t_end |-> t_end, takeoff |-> NaN,
    growth |-> [gwp |-> <<>>, t_idx |-> 0, n_timesteps |-> 0]] :
     f \in {"RuntimeError in constructor", "RuntimeError in run_simulation",
            "AssertionError in run_simulation"}}

Samples == GoodSamples \cup BadSamples

\* The local `model` before any SimulateTakeOff was built
NoModel ==
  [mc_params |-> <<>>, ran |-> FALSE,
   timeline_metrics |-> [m \in TimelineMetrics |-> NaN],
   takeoff_metrics |-> [m \in TakeoffMetrics |-> NaN],
   gwp |-> <<>>, biggest_training_run |-> <<>>, t_idx |-> 0,
   n_timesteps |-> 0, t_start |-> t_start, t_end |-> t_end, t_step |-> t_step]

\* SimulateTakeOff(**mc_params, t_start = t_start, t_end_min = t_end, ...)
\* followed by run_simulation(), on a sample the simulation accepts
SimulateTakeOff(s) ==
  [mc_params |-> <<s>>, ran |-> TRUE,
   timeline_metrics |-> [m \in TimelineMetrics |-> s.auto],
   takeoff_metrics |-> [m \in TakeoffMetrics |-> s.takeoff],
   gwp |-> s.growth.gwp,
   biggest_training_run |-> [j \in 1..s.growth.n_timesteps |-> 1],
   t_idx |-> s.growth.t_idx, n_timesteps |-> s.growth.n_timesteps,
   t_start |-> t_start, t_end |-> s.t_end, t_step |-> t_step]

\* The object left in `model` when run_simulation() raised
FailedModel(s) == [NoModel EXCEPT !.mc_params = <<s>>]

\* The counterfactual run: automated-task fractions in tenths, per timestep
NoAutomationModels ==
  {[t_start |-> t_start, goods |-> g, rnd |-> r] :
     g \in {<<0, 5>>, <<0, 10>>}, r \in {<<0, 5>>, <<5, 12>>}}

NoBaseline == [t_start |-> t_start, goods |-> <<>>, rnd |-> <<>>]

\* ---- the consumers of a returned bundle ----

\* The years n and m of a table: of range(1, 20), the two years of the
\* slow-takeoff label, whose windows fit the growth trajectories of the model
TableYears == {1, 4}

\* a / b as numpy divides (b = 0 gives nan or inf with a warning, no
\* exception), kept as the pair of its operands
Quotient(a, b) == [k |-> "quotient", num |-> a, den |-> b]

\* Before write_takeoff_probability_table was called
NoTable ==
  [built |-> FALSE, error |-> "",
   table |-> [cell \in TableYears \X TableYears |-> NaN]]

\* Before write_mc_analysis_report was called
NoReport ==
  [built |-> FALSE, error |-> "",
   takeoff_probability_table |-> [cell \in TableYears \X TableYears |-> NaN],
   full_automation_probability |-> Quotient(0, 0),
   slow_takeoff_probability |-> Quotient(0, 0)]

\* ---- get_value_at_year called on its own ----

MaxExp == 2      \* log2 of a metric value ranges over 0..MaxExp

\* A run as get_value_at_year reads it: t_start and a series over three
\* yearly timesteps
ValueRuns(starts) ==
  {[t_start |-> ts, log2_vals |-> vals] :
     ts \in starts, vals \in [1..3 -> 0..MaxExp]}

GIdle ==
  /\ g_pc = "idle"
  /\ g_year = t_start
  /\ g_model = [t_start |-> t_start, log2_vals |-> <<0, 0, 0>>]
  /\ g_no_automation_model = [t_start |-> t_start, log2_vals |-> <<0, 0, 0>>]
  /\ g_value = NaN

GInit ==
  /\ g_pc = "call"
  /\ g_year \in (t_start - 2)..(t_start + 2)
  /\ g_model \in ValueRuns({t_start})
  /\ g_no_automation_model \in ValueRuns({t_start - 1, t_start})
  /\ g_value = NaN

----------------------------------------------------------------------------
(* mc_analysis: helpers *)

\* The baseline used up to and including the start year
YearsBeforeAgiMetric_get_value_at_year_Inclusive(year, m, no_auto) ==
  IF year <= m.t_start
    THEN [run |-> "baseline", year |-> year]
    ELSE [run |-> "primary", year |-> year]

\* YearsBeforeAgiMetric.get_value_at_year: which interpolator is evaluated,
\* and at which year
YearsBeforeAgiMetric_get_value_at_year(year, m, no_auto) ==
  IF year < m.t_start
    THEN [run |-> "baseline", year |-> year]
    ELSE [run |-> "primary", year |-> year]

\* DoublingYearsBeforeFullAutomationMetric.get_value_at_year: which run is
\* interpolated, and at which year
DoublingYears_get_value_at_year(year, normal_model, no_auto) ==
  [run |-> IF year < normal_model.t_start THEN "baseline" ELSE "primary",
   year |-> year]

get_value_at_year(metric, year, m, no_auto) ==
  IF metric \in DoublingTimeMetrics
    THEN DoublingYears_get_value_at_year(year, m, no_auto)
    ELSE YearsBeforeAgiMetric_get_value_at_year(year, m, no_auto)

\* interp1d(ts, series, fill_value = 'extrapolate')(year) for a run with one
\* timestep a year from its t_start: the series value at a year the run
\* covers, the line through the first (last) two points before (after) it.
\* The series holds log2 of the metric, so that a doubling is a step of 1
Interpolate(run, year) ==
  LET j == year - run.t_start + 1
      len == Len(run.log2_vals)
  IN  IF j < 1
        THEN run.log2_vals[1] + (j - 1) * (run.log2_vals[2] - run.log2_vals[1])
      ELSE IF j > len
        THEN run.log2_vals[len]
               + (j - len) * (run.log2_vals[len] - run.log2_vals[len - 1])
      ELSE run.log2_vals[j]

\* The run a result of get_value_at_year names
SelectedRun(selection, m, no_auto) ==
  IF selection.run = "baseline" THEN no_auto ELSE m

\* YearsBeforeAgiMetric.get_value_at_year with interpolation = 'log' (the
\* one mc_analysis uses): 10**interpolator(year), here as a power of 2
YearsBeforeAgiMetric_value(year, m, no_auto) ==
  LET selection == YearsBeforeAgiMetric_get_value_at_year(year, m, no_auto)
  IN  [k |-> "power of 2",
       v |-> Interpolate(SelectedRun(selection, m, no_auto), selection.year)]

\* The float 1e10
DoublingTimeSentinel == [k |-> "1e10", v |-> 0]

\* A doubling time that divides whatever the denominator is
DoublingTime_NoSentinel(denominator) == Quotient(1, denominator)

\* doubling_time = 1/denominator if (denominator != 0) else 1e10
DoublingTime(denominator) ==
  IF denominator # 0 THEN Quotient(1, denominator) ELSE DoublingTimeSentinel

\* DoublingYearsBeforeFullAutomationMetric.get_value_at_year:
\* denominator = np.log2(10**interpolator(year+1)/10**interpolator(year))
DoublingYears_value(year, normal_model, no_auto) ==
  LET selection == DoublingYears_get_value_at_year(year, normal_model, no_auto)
      run == SelectedRun(selection, normal_model, no_auto)
  IN  DoublingTime(Interpolate(run, selection.year + 1)
                     - Interpolate(run, selection.year))

\* is_slow_takeoff(model): "True", "False" or "ValueError"
is_slow_takeoff(m) ==
  IF IsNone(m.timeline_metrics["automation_gns_100%"]) THEN "False"
  ELSE n_year_doubling_before_m_year_doubling(
         SubSeq(m.gwp, 1, m.t_idx), m.t_step, 4, 1)

\* The scalar value read off the run for a metric name
MetricValue(m, name) ==
  IF name \in TimelineMetrics THEN m.timeline_metrics[name]
  ELSE m.takeoff_metrics[name]

\* The assertion left out
NonNegativeAssertion_Off(x) == TRUE

\* assert (metric_value is None or np.isnan(metric_value) or metric_value >= 0)
NonNegativeAssertion(x) == IsNone(x) \/ IsNan(x) \/ x.v >= 0

\* The value appended as it was read, NaN included
RecordedValue_Uncensored(m, name) == MetricValue(m, name)

\* The value appended to the series: a NaN timeline metric becomes model.t_end
RecordedValue(m, name) ==
  IF name \in TimelineMetrics /\ IsNan(MetricValue(m, name))
    THEN Num(m.t_end)
    ELSE MetricValue(m, name)

\* What happens to one scalar metric in the collection loop
ScalarStep(m, name) ==
  LET x == MetricValue(m, name)
  IN  IF ~NonNegativeAssertion(x) THEN "AssertionError"
      ELSE IF name \in TimelineMetrics /\ IsNone(x) THEN "TypeError"
      ELSE "ok"

\* assert metric_value.shape == (model.n_timesteps,)
StateSeries(m, name) == IF name = "gwp" THEN m.gwp ELSE m.biggest_training_run
ShapeAssertion(m, name) == Len(StateSeries(m, name)) = m.n_timesteps

\* The assertion on the goods fractions alone
LessThanUniversalAutomation_GoodsOnly(b) ==
  \A j \in 1..Len(b.goods) : b.goods[j] < 10

\* assert(np.all(goods < 1) and np.all(rnd < 1)), fractions in tenths
LessThanUniversalAutomation(b) ==
  /\ \A j \in 1..Len(b.goods) : b.goods[j] < 10
  /\ \A j \in 1..Len(b.rnd) : b.rnd[j] < 10

\* A test that takes every run to have reached the event
ReachedAnchorEvent_Always(m) == TRUE

\* not np.isnan(model.timeline_metrics['automation_gns_100%'])
ReachedAnchorEvent(m) == ~IsNan(m.timeline_metrics["automation_gns_100%"])

\* The lists the trial loop appends to
accumulators == <<samples, scalar_metrics, state_metrics,
                  metrics_before_full_automation_values, last_valid_indices,
                  slow_takeoff_count>>

AnchoredKeys == metrics_before_full_automation \X years_before_full_automation

----------------------------------------------------------------------------
(* mc_analysis: the trial loop *)

\* The locals of mc_analysis before the trial loop
MCFresh ==
  /\ trial = 0
  /\ i = 0
  /\ sample = <<>>
  /\ model = NoModel
  /\ no_automation_model = NoBaseline
  /\ samples = <<>>
  /\ scalar_metrics = [m \in ScalarMetricNames |-> <<>>]
  /\ state_metrics = [m \in StateMetricNames |-> <<>>]
  /\ metrics_before_full_automation_values = [key \in AnchoredKeys |-> <<>>]
  /\ last_valid_indices = <<>>
  /\ slow_takeoff_count = 0
  /\ error = ""
  /\ results = <<>>
  /\ n_attempts = 0
  /\ n_baseline_runs = 0
  /\ last_outcome = ""
  /\ numpy_quantile_of_empty = "unknown"
  /\ takeoff_probability_table = NoTable
  /\ report = NoReport

MCInit ==
  /\ pc = "loop"
  /\ n_trials \in 0..MaxTrials
  /\ max_retries \in 0..MaxRetries
  /\ MCFresh

\* mc_vars while mc_analysis is not being called
MCIdle ==
  /\ pc = "idle"
  /\ n_trials = 0
  /\ max_retries = 0
  /\ MCFresh

Raise(e) ==
  /\ pc' = "raised"
  /\ error' = e

\* A retry loop that allows one attempt too many
RetriesLeft_OneTooMany == i <= max_retries

\* "for i in range(max_retries)" has another iteration to run
RetriesLeft == i < max_retries

\* A retry loop that goes on until an attempt succeeds
InRetryLoop_Unbounded == pc = "loop" /\ trial < n_trials

\* Inside "for trial in range(n_trials): for i in range(max_retries):"
InRetryLoop == pc = "loop" /\ trial < n_trials /\ RetriesLeft

\* params_dist.rvs(1) raises: caught by "except Exception", next attempt
SamplerRaises ==
  /\ InRetryLoop
  /\ i' = i + 1
  /\ last_outcome' = "sampler raised"
  /\ UNCHANGED <<pc, n_trials, max_retries, trial, sample, model,
                 no_automation_model, accumulators, error, results,
                 n_attempts, n_baseline_runs,
                 numpy_quantile_of_empty>>
  /\ UNCHANGED d_vars
  /\ UNCHANGED t_vars
  /\ UNCHANGED g_vars

\* A failing attempt that keeps its sample in the sample table
AttemptFails_KeepsSample ==
  /\ InRetryLoop
  /\ \E s \in BadSamples :
       /\ sample' = <<s>>
       /\ model' = IF s.fault = "RuntimeError in constructor"
                     THEN model ELSE FailedModel(s)
       /\ last_outcome' = s.fault
       /\ samples' = Append(samples, s)
  /\ i' = i + 1
  /\ n_attempts' = n_attempts + 1
  /\ UNCHANGED <<pc, n_trials, max_retries, trial, no_automation_model,
                 scalar_metrics, state_metrics,
                 metrics_before_full_automation_values, last_valid_indices,
                 slow_takeoff_count, error, results, n_baseline_runs,
                 numpy_quantile_of_empty>>
  /\ UNCHANGED d_vars
  /\ UNCHANGED t_vars
  /\ UNCHANGED g_vars

\* The sample is drawn and SimulateTakeOff or run_simulation raises on it:
\* caught by "except Exception", the sample is discarded, next attempt
AttemptFails ==
  /\ InRetryLoop
  /\ \E s \in BadSamples :
       /\ sample' = <<s>>
       /\ model' = IF s.fault = "RuntimeError in constructor"
                     THEN model ELSE FailedModel(s)
       /\ last_outcome' = s.fault
  /\ i' = i + 1
  /\ n_attempts' = n_attempts + 1
  /\ UNCHANGED <<pc, n_trials, max_retries, trial, no_automation_model,
                 accumulators, error, results, n_baseline_runs,
                 numpy_quantile_of_empty>>
  /\ UNCHANGED d_vars
  /\ UNCHANGED t_vars
  /\ UNCHANGED g_vars

\* The sample is drawn and the simulation runs: samples.append(sample); break
AttemptSucceeds ==
  /\ InRetryLoop
  /\ \E s \in GoodSamples :
       /\ sample' = <<s>>
       /\ model' = SimulateTakeOff(s)
       /\ samples' = Append(samples, s)
  /\ last_outcome' = "ran"
  /\ n_attempts' = n_attempts + 1
  /\ pc' = "collect"
  /\ UNCHANGED <<n_trials, max_retries, trial, i, no_automation_model,
                 scalar_metrics, state_metrics,
                 metrics_before_full_automation_values, last_valid_indices,
                 slow_takeoff_count, error, results, n_baseline_runs,
                 numpy_quantile_of_empty>>
  /\ UNCHANGED d_vars
  /\ UNCHANGED t_vars
  /\ UNCHANGED g_vars

\* The for ... else clause: the retry loop ran out
RaiseTooManyRetries ==
  /\ pc = "loop"
  /\ trial < n_trials
  /\ ~RetriesLeft
  /\ Raise("TooManyRetries")
  /\ UNCHANGED <<n_trials, max_retries, trial, i, sample, model,
                 no_automation_model, accumulators, results, n_attempts,
                 n_baseline_runs, last_outcome, numpy_quantile_of_empty>>
  /\ UNCHANGED d_vars
  /\ UNCHANGED t_vars
  /\ UNCHANGED g_vars

\* The scalar metrics in dictionary order: timeline metrics, then takeoff
ScalarOrder == <<"automation_gns_100%", "full_automation_gns">>
StateOrder == <<"biggest_training_run", "gwp">>

\* How many metrics of `order` are handled before `step` stops being "ok"
RECURSIVE OkPrefix(_, _, _)
OkPrefix(order, ok, j) ==
  IF j > Len(order) \/ ~ok[order[j]] THEN j - 1
  ELSE OkPrefix(order, ok, j + 1)

ScalarsDone == OkPrefix(ScalarOrder,
                 [name \in ScalarMetricNames |-> ScalarStep(model, name) = "ok"], 1)
StatesDone == OkPrefix(StateOrder,
                 [name \in StateMetricNames |-> ShapeAssertion(model, name)], 1)

\* scalar_metrics after the first `done` metrics of the loop were appended
ScalarsAppended(done) ==
  [name \in ScalarMetricNames |->
     IF \E j \in 1..done : ScalarOrder[j] = name
       THEN Append(scalar_metrics[name], RecordedValue(model, name))
       ELSE scalar_metrics[name]]

StatesAppended(done) ==
  [name \in StateMetricNames |->
     IF \E j \in 1..done : StateOrder[j] = name
       THEN Append(state_metrics[name], StateSeries(model, name))
       ELSE state_metrics[name]]

\* "Collect results": the scalar loop and the state loop, to their end or to
\* the first failing assertion
CollectMetrics ==
  /\ pc = "collect"
  /\ scalar_metrics' = ScalarsAppended(ScalarsDone)
  /\ IF ScalarsDone < Len(ScalarOrder)
       THEN /\ Raise(ScalarStep(model, ScalarOrder[ScalarsDone + 1]))
            /\ UNCHANGED state_metrics
       ELSE /\ state_metrics' = StatesAppended(StatesDone)
            /\ IF StatesDone < Len(StateOrder)
                 THEN Raise("AssertionError")
                 ELSE pc' = "anchor" /\ UNCHANGED error
  /\ UNCHANGED <<n_trials, max_retries, trial, i, sample, model,
                 no_automation_model, samples,
                 metrics_before_full_automation_values, last_valid_indices,
                 slow_takeoff_count, results, n_attempts, n_baseline_runs,
                 last_outcome, numpy_quantile_of_empty>>
  /\ UNCHANGED d_vars
  /\ UNCHANGED t_vars
  /\ UNCHANGED g_vars

\* The primary run did not reach the anchor event: no counterfactual run
SkipCounterfactual ==
  /\ pc = "anchor"
  /\ ~ReachedAnchorEvent(model)
  /\ pc' = "finish"
  /\ UNCHANGED <<n_trials, max_retries, trial, i, sample, model,
                 no_automation_model, accumulators, error, results,
                 n_attempts, n_baseline_runs, last_outcome, numpy_quantile_of_empty>>
  /\ UNCHANGED d_vars
  /\ UNCHANGED t_vars
  /\ UNCHANGED g_vars

\* A fault of the counterfactual run handled as the retry loop handles one
\* of the primary run: the slot is tried again
CounterfactualRaises_Retried ==
  /\ pc = "anchor"
  /\ ReachedAnchorEvent(model)
  /\ n_baseline_runs' = n_baseline_runs + 1
  /\ i' = i + 1
  /\ pc' = "loop"
  /\ UNCHANGED <<n_trials, max_retries, trial, sample, model,
                 no_automation_model, accumulators, error, results,
                 n_attempts, last_outcome, numpy_quantile_of_empty>>
  /\ UNCHANGED d_vars
  /\ UNCHANGED t_vars
  /\ UNCHANGED g_vars

\* SimulateTakeOff(**no_automation_mc_params, ...) or its run_simulation()
\* raises: nothing catches it
CounterfactualRaises ==
  /\ pc = "anchor"
  /\ ReachedAnchorEvent(model)
  /\ n_baseline_runs' = n_baseline_runs + 1
  /\ Raise("RuntimeError")
  /\ UNCHANGED <<n_trials, max_retries, trial, i, sample, model,
                 no_automation_model, accumulators, results, n_attempts,
                 last_outcome, numpy_quantile_of_empty>>
  /\ UNCHANGED d_vars
  /\ UNCHANGED t_vars
  /\ UNCHANGED g_vars

\* The year-anchored series after one value per (metric, year) was appended
AnchoredAppended(m, b) ==
  [key \in AnchoredKeys |->
     Append(metrics_before_full_automation_values[key],
            get_value_at_year(key[1],
              m.timeline_metrics["automation_gns_100%"].v - key[2], m, b))]

\* The counterfactual run completes: the assertion on it, then the values
CounterfactualRuns ==
  /\ pc = "anchor"
  /\ ReachedAnchorEvent(model)
  /\ n_baseline_runs' = n_baseline_runs + 1
  /\ \E b \in NoAutomationModels :
       /\ no_automation_model' = b
       /\ IF ~LessThanUniversalAutomation(b)
            THEN /\ Raise("AssertionError")
                 /\ UNCHANGED metrics_before_full_automation_values
            ELSE /\ metrics_before_full_automation_values' =
                      AnchoredAppended(model, b)
                 /\ pc' = "finish"
                 /\ UNCHANGED error
  /\ UNCHANGED <<n_trials, max_retries, trial, i, sample, model, samples,
                 scalar_metrics, state_metrics, last_valid_indices,
                 slow_takeoff_count, results, n_attempts, last_outcome, numpy_quantile_of_empty>>
  /\ UNCHANGED d_vars
  /\ UNCHANGED t_vars
  /\ UNCHANGED g_vars

\* A trial loop whose slots share one retry counter
FinishTrial_SharedRetryBudget ==
  /\ pc = "finish"
  /\ last_valid_indices' = Append(last_valid_indices, model.t_idx)
  /\ IF is_slow_takeoff(model) = "ValueError"
       THEN /\ Raise("ValueError")
            /\ UNCHANGED <<trial, i, slow_takeoff_count>>
       ELSE /\ slow_takeoff_count' =
                 IF is_slow_takeoff(model) = "True"
                   THEN slow_takeoff_count + 1 ELSE slow_takeoff_count
            /\ trial' = trial + 1
            /\ i' = i
            /\ pc' = "loop"
            /\ UNCHANGED error
  /\ UNCHANGED <<n_trials, max_retries, sample, model, no_automation_model,
                 samples, scalar_metrics, state_metrics,
                 metrics_before_full_automation_values, results, n_attempts,
                 n_baseline_runs, last_outcome, numpy_quantile_of_empty>>
  /\ UNCHANGED d_vars
  /\ UNCHANGED t_vars
  /\ UNCHANGED g_vars

\* last_valid_indices.append(model.t_idx); if is_slow_takeoff(model): count
FinishTrial ==
  /\ pc = "finish"
  /\ last_valid_indices' = Append(last_valid_indices, model.t_idx)
  /\ IF is_slow_takeoff(model) = "ValueError"
       THEN /\ Raise("ValueError")
            /\ UNCHANGED <<trial, i, slow_takeoff_count>>
       ELSE /\ slow_takeoff_count' =
                 IF is_slow_takeoff(model) = "True"
                   THEN slow_takeoff_count + 1 ELSE slow_takeoff_count
            /\ trial' = trial + 1
            /\ i' = 0
            /\ pc' = "loop"
            /\ UNCHANGED error
  /\ UNCHANGED <<n_trials, max_retries, sample, model, no_automation_model,
                 samples, scalar_metrics, state_metrics,
                 metrics_before_full_automation_values, results, n_attempts,
                 n_baseline_runs, last_outcome, numpy_quantile_of_empty>>
  /\ UNCHANGED d_vars
  /\ UNCHANGED t_vars
  /\ UNCHANGED g_vars

----------------------------------------------------------------------------
(* mc_analysis: aggregation after the last trial *)

\* filter_nans(x): x[~np.isnan(x)]; np.isnan raises TypeError on an array
\* that holds None (dtype object)
HoldsNone(series) == \E j \in 1..Len(series) : IsNone(series[j])
filter_nans(series) == SelectSeq(series, LAMBDA x : ~IsNan(x))

\* np.quantile on an empty array raises IndexError or returns nan, depending
\* on the numpy in use; the same numpy answers every call of one run
NumpyAnswers(np) ==
  /\ np \in {"nan", "IndexError"}
  /\ numpy_quantile_of_empty \in {"unknown", np}

\* The first scalar metric of the summary loop that fails, and how
RECURSIVE SummaryOutcome(_, _)
SummaryOutcome(j, np) ==
  IF j > Len(ScalarOrder) THEN "ok"
  ELSE LET series == scalar_metrics[ScalarOrder[j]]
       IN  IF HoldsNone(series) THEN "TypeError"
           ELSE IF filter_nans(series) = <<>> /\ np = "IndexError"
             THEN "IndexError"
           ELSE SummaryOutcome(j + 1, np)

SomeScalarSeriesEmpty ==
  \E name \in ScalarMetricNames :
     ~HoldsNone(scalar_metrics[name]) /\ filter_nans(scalar_metrics[name]) = <<>>

\* Lines 232-245: the arrays and the quantile rows of the scalar metrics
SummariseScalars ==
  /\ pc = "loop"
  /\ ~(trial < n_trials)
  /\ \E np \in {"nan", "IndexError"} :
       /\ NumpyAnswers(np)
       /\ numpy_quantile_of_empty' =
            IF SomeScalarSeriesEmpty THEN np ELSE numpy_quantile_of_empty
       /\ IF SummaryOutcome(1, np) = "ok"
            THEN pc' = "dump" /\ UNCHANGED error
            ELSE Raise(SummaryOutcome(1, np))
  /\ UNCHANGED <<n_trials, max_retries, trial, i, sample, model,
                 no_automation_model, accumulators, results, n_attempts,
                 n_baseline_runs, last_outcome>>
  /\ UNCHANGED d_vars
  /\ UNCHANGED t_vars
  /\ UNCHANGED g_vars

\* Lines 249-251: open('/home/edu/.tmp/trash/metrics.pickle', 'wb') and dump
DumpMetrics ==
  /\ pc = "dump"
  /\ \E directory_exists \in BOOLEAN :
       IF directory_exists
         THEN pc' = "anchored quantiles" /\ UNCHANGED error
         ELSE Raise("FileNotFoundError")
  /\ UNCHANGED <<n_trials, max_retries, trial, i, sample, model,
                 no_automation_model, accumulators, results, n_attempts,
                 n_baseline_runs, last_outcome, numpy_quantile_of_empty>>
  /\ UNCHANGED d_vars
  /\ UNCHANGED t_vars
  /\ UNCHANGED g_vars

SomeAnchoredSeriesEmpty ==
  \E key \in AnchoredKeys : metrics_before_full_automation_values[key] = <<>>

\* Lines 252-260: the quantile tables of the year-anchored metrics
AnchoredQuantiles ==
  /\ pc = "anchored quantiles"
  /\ \E np \in {"nan", "IndexError"} :
       /\ NumpyAnswers(np)
       /\ numpy_quantile_of_empty' =
            IF SomeAnchoredSeriesEmpty THEN np ELSE numpy_quantile_of_empty
       /\ IF SomeAnchoredSeriesEmpty /\ np = "IndexError"
            THEN Raise("IndexError")
            ELSE pc' = "return" /\ UNCHANGED error
  /\ UNCHANGED <<n_trials, max_retries, trial, i, sample, model,
                 no_automation_model, accumulators, results, n_attempts,
                 n_baseline_runs, last_outcome>>
  /\ UNCHANGED d_vars
  /\ UNCHANGED t_vars
  /\ UNCHANGED g_vars

\* np.sum(scalar_metrics['automation_gns_100%'] < t_end)
RECURSIVE CountBelow(_, _)
CountBelow(series, bound) ==
  IF series = <<>> THEN 0
  ELSE (IF IsNum(Head(series)) /\ Head(series).v < bound THEN 1 ELSE 0)
       + CountBelow(Tail(series), bound)

n_finished_trials == CountBelow(scalar_metrics["automation_gns_100%"], t_end)

\* quantiles = [0.01, 0.1, 0.2, 0.5, 0.8, 0.9, 0.99], in hundredths
quantiles == {1, 10, 20, 50, 80, 90, 99}

\* The string f'≥ {t_end}'
Sentinel == [k |-> "sentinel", v |-> t_end]

\* np.quantile(values, q) by linear interpolation between the order
\* statistics around position (n - 1) * q, as a quotient over 100; nan on an
\* empty array (where numpy does not raise)
np_quantile(values, q) ==
  IF values = <<>> THEN NaN
  ELSE LET x == SortSeq(values, LAMBDA a, b : a.v < b.v)
           position == (Len(x) - 1) * q
           lo == position \div 100
           f == position % 100
       IN  Quotient(x[lo + 1].v * (100 - f)
                      + (IF f = 0 THEN 0 ELSE x[lo + 2].v * f), 100)

RECURSIVE SumOf(_)
SumOf(values) ==
  IF values = <<>> THEN 0 ELSE Head(values).v + SumOf(Tail(values))

\* np.mean(values): nan (with a warning) on an empty array
np_mean(values) ==
  IF values = <<>> THEN NaN ELSE Quotient(SumOf(values), Len(values))

\* A cell whose value is left as it was computed
QuantileCell_Raw(value) == value

\* Line 244: value if (value < t_end) else f'≥ {t_end}'
QuantileCell(value) ==
  IF value.k = "quotient" /\ value.num < t_end * value.den
    THEN value ELSE Sentinel

\* Lines 238-245 and 262-266: the quantile rows and the mean row of the
\* scalar metrics
metrics_quantiles ==
  [quantile_rows |->
     [q \in quantiles |->
        [name \in ScalarMetricNames |->
           QuantileCell(np_quantile(filter_nans(scalar_metrics[name]), q))]],
   mean_row |->
     [name \in ScalarMetricNames |->
        np_mean(filter_nans(scalar_metrics[name]))]]

\* The McAnalysisResults object
McAnalysisResults ==
  [n_trials |-> n_trials,
   n_finished_trials |-> n_finished_trials,
   slow_takeoff_count |-> slow_takeoff_count,
   param_samples |-> samples,
   metrics_quantiles |-> metrics_quantiles,
   scalar_metrics |-> scalar_metrics,
   state_metrics |-> state_metrics,
   last_valid_indices |-> last_valid_indices,
   metrics_before_full_automation_quantiles |->
     [key \in AnchoredKeys |-> Len(metrics_before_full_automation_values[key])],
   t_start |-> t_start, t_end |-> t_end, t_step |-> t_step]

\* Lines 262-292: the mean row, the counts, pd.concat(samples) (a ValueError
\* on an empty list) and the return
ReturnResults ==
  /\ pc = "return"
  /\ IF samples = <<>>
       THEN Raise("ValueError") /\ UNCHANGED results
       ELSE /\ results' = <<McAnalysisResults>>
            /\ pc' = "done"
            /\ UNCHANGED error
  /\ UNCHANGED <<n_trials, max_retries, trial, i, sample, model,
                 no_automation_model, accumulators, n_attempts,
                 n_baseline_runs, last_outcome, numpy_quantile_of_empty>>
  /\ UNCHANGED d_vars
  /\ UNCHANGED t_vars
  /\ UNCHANGED g_vars

----------------------------------------------------------------------------
(* The takeoff-probability tables built from a returned bundle *)

\* gwps[i]: results.state_metrics['gwp'][i][:results.last_valid_indices[i]]
gwps(r) ==
  [j \in 1..r.n_trials |->
     SubSeq(r.state_metrics["gwp"][j], 1, r.last_valid_indices[j])]

\* The cells with n > m, the ones the predicate is called for
UpperCells == {cell \in TableYears \X TableYears : cell[1] > cell[2]}

\* What the predicate answers for each cell (n, m), n > m, and each trial
PredicateAnswers(r) ==
  LET g == gwps(r)
  IN  [cell \in UpperCells |->
         [j \in 1..r.n_trials |->
            n_year_doubling_before_m_year_doubling(
              g[j], r.t_step, cell[1], cell[2])]]

\* Some call of the predicate made for a table raises
TableRaises(answers) ==
  \E cell \in DOMAIN answers : \E j \in DOMAIN answers[cell] :
     answers[cell][j] = "ValueError"

\* Lines 394-399: p = np.sum([predicate(gwp, t_step, n, m) for gwp in gwps])
\*                    / results.n_trials if (n > m) else np.nan
TakeoffProbabilityTable(r, answers) ==
  [cell \in TableYears \X TableYears |->
     IF cell[1] > cell[2]
       THEN Quotient(
              Cardinality({j \in 1..r.n_trials : answers[cell][j] = "True"}),
              r.n_trials)
       ELSE NaN]

\* Lines 452-461: p = np.sum([predicate(gwps[i], t_step, n, m) and
\*   scalar_metrics['automation_gns_100%'][i] < t_end for i ...])
\*   / results.n_finished_trials if (n > m) else np.nan
ReportTakeoffProbabilityTable(r, answers) ==
  [cell \in TableYears \X TableYears |->
     IF cell[1] > cell[2]
       THEN Quotient(
              Cardinality({j \in 1..r.n_trials :
                 /\ answers[cell][j] = "True"
                 /\ r.scalar_metrics["automation_gns_100%"][j].v < r.t_end}),
              r.n_finished_trials)
       ELSE NaN]

\* write_takeoff_probability_table on a bundle mc_analysis returned
write_takeoff_probability_table ==
  /\ pc = "done"
  /\ ~takeoff_probability_table.built
  /\ LET answers == PredicateAnswers(results[1])
     IN  takeoff_probability_table' =
           IF TableRaises(answers)
             THEN [NoTable EXCEPT !.built = TRUE, !.error = "ValueError"]
             ELSE [built |-> TRUE, error |-> "",
                   table |-> TakeoffProbabilityTable(results[1], answers)]
  /\ UNCHANGED mc_vars
  /\ UNCHANGED d_vars
  /\ UNCHANGED report
  /\ UNCHANGED g_vars

\* write_mc_analysis_report, lines 450-468: the table, the probability of
\* full automation before t_end and the probability of slow takeoff
ReportTakeoffProbabilities ==
  /\ pc = "done"
  /\ ~report.built
  /\ LET answers == PredicateAnswers(results[1])
     IN  report' =
           IF TableRaises(answers)
             THEN [NoReport EXCEPT !.built = TRUE, !.error = "ValueError"]
             ELSE [built |-> TRUE, error |-> "",
                   takeoff_probability_table |->
                     ReportTakeoffProbabilityTable(results[1], answers),
                   full_automation_probability |->
                     Quotient(results[1].n_finished_trials, results[1].n_trials),
                   slow_takeoff_probability |->
                     Quotient(results[1].slow_takeoff_count,
                              results[1].n_finished_trials)]
  /\ UNCHANGED mc_vars
  /\ UNCHANGED d_vars
  /\ UNCHANGED takeoff_probability_table
  /\ UNCHANGED g_vars

----------------------------------------------------------------------------
(* Specifications *)

Init == MCInit /\ DIdle /\ GIdle

Next ==
  \/ SamplerRaises
  \/ AttemptFails
  \/ AttemptSucceeds
  \/ RaiseTooManyRetries
  \/ CollectMetrics
  \/ SkipCounterfactual
  \/ CounterfactualRaises
  \/ CounterfactualRuns
  \/ FinishTrial
  \/ SummariseScalars
  \/ DumpMetrics
  \/ AnchoredQuantiles
  \/ ReturnResults
  \/ write_takeoff_probability_table
  \/ ReportTakeoffProbabilities

Spec == Init /\ [][Next]_vars

\* mc_analysis where every sampler draw, every simulation construction and
\* run and every library call returns or raises: the interpreter takes the
\* statement that comes next
SpecReturnsOrRaises == Spec /\ WF_vars(Next)

\* n_year_doubling_before_m_year_doubling called on its own
DoublingInit == MCIdle /\ DInit /\ GIdle

DoublingNext ==
  \/ DoublingReturn
  \/ DoublingRaise

SpecDoubling == DoublingInit /\ [][DoublingNext]_vars

\* get_value_at_year of the two year-anchored metric classes, called on its
\* own
YearsBeforeAgiMetricCall ==
  /\ g_pc = "call"
  /\ g_value' = YearsBeforeAgiMetric_value(g_year, g_model, g_no_automation_model)
  /\ g_pc' = "YearsBeforeAgiMetric returned"
  /\ UNCHANGED <<g_year, g_model, g_no_automation_model>>
  /\ UNCHANGED <<mc_vars, d_vars, t_vars>>

DoublingYearsCall ==
  /\ g_pc = "call"
  /\ g_value' = DoublingYears_value(g_year, g_model, g_no_automation_model)
  /\ g_pc' = "DoublingYearsBeforeFullAutomationMetric returned"
  /\ UNCHANGED <<g_year, g_model, g_no_automation_model>>
  /\ UNCHANGED <<mc_vars, d_vars, t_vars>>

ValueAtYearInit == MCIdle /\ DIdle /\ GInit

ValueAtYearNext ==
  \/ YearsBeforeAgiMetricCall
  \/ DoublingYearsCall

SpecValueAtYear == ValueAtYearInit /\ [][ValueAtYearNext]_vars

----------------------------------------------------------------------------
(* Properties of the retry loop *)

\* Every list with one entry per completed trial has `len` entries
PerTrialLists(len) ==
  /\ Len(samples) = len
  /\ \A name \in ScalarMetricNames : Len(scalar_metrics[name]) = len
  /\ \A name \in StateMetricNames : Len(state_metrics[name]) = len
  /\ Len(last_valid_indices) = len

\* A step of a slot that has had no successful attempt: a failing attempt,
\* or the raise
C1_FailingStep == pc = "loop" /\ trial < n_trials /\ pc' \in {"loop", "raised"}

C1_Step ==
  /\ C1_FailingStep =>
       (UNCHANGED accumulators /\ PerTrialLists(trial) /\ trial' = trial)
  /\ (error' = "TooManyRetries" /\ error # "TooManyRetries") =>
       (i = max_retries /\ i' = i /\ pc' = "raised")

\* C1: if every attempt of a trial slot fails, mc_analysis raises
\* TooManyRetries after exactly max_retries attempts of that slot, and no
\* step of the slot (its failing attempts, the raise) records anything: the
\* per-trial lists still hold one entry per earlier slot and
\* slow_takeoff_count is what it was.
C1_TooManyRetries == [][C1_Step]_vars

\* All attempts of the second slot failed, after a first slot that completed
C1_Witness ==
  /\ error = "TooManyRetries"
  /\ max_retries = 2
  /\ trial = 1
  /\ i = 2
  /\ Len(samples) = 1

\* What mc_analysis records for a scalar metric of the run built from the
\* sample s
RecordedFor(s, name) ==
  IF name \in TimelineMetrics
    THEN (IF s.auto.k = "nan" THEN Num(s.t_end) ELSE s.auto)
    ELSE s.takeoff

\* The slot `trial` has had its successful attempt and is being recorded
C2_SlotSucceeded == pc \in {"collect", "anchor", "finish"}

\* C2 (as amended): if the first k < max_retries attempts of a slot fail and
\* attempt k+1 succeeds, the retry loop of the slot ends without
\* TooManyRetries, the sample table gains exactly one sample, the one drawn
\* in the successful attempt (no discarded sample is ever in the table), and
\* every metric recorded for the slot is read from the run built from that
\* sample.
C2_SuccessfulDraw ==
  /\ C2_SlotSucceeded =>
       /\ i < max_retries
       /\ Len(samples) = trial + 1
       /\ sample = <<Last(samples)>>
       /\ model.mc_params = sample
       /\ model.ran
       /\ error = ""
  /\ \A j \in 1..Len(samples) : samples[j].fault = "none"
  /\ Len(samples) = trial + 1 => error # "TooManyRetries"
  /\ pc \in {"anchor", "finish"} =>
       /\ \A name \in ScalarMetricNames :
            Last(scalar_metrics[name]) = RecordedFor(Last(samples), name)
       /\ Last(state_metrics["gwp"]) = Last(samples).growth.gwp
  /\ (pc = "finish" /\ Last(samples).auto.k # "nan") =>
       \A key \in AnchoredKeys :
          Last(metrics_before_full_automation_values[key]).year
            = Last(samples).auto.v - key[2]
  /\ (pc = "loop" /\ trial > 0) =>
       Last(last_valid_indices) = Last(samples).growth.t_idx

\* One attempt of the second slot failed, the next one succeeded
C2_Witness ==
  /\ pc = "finish"
  /\ trial = 1
  /\ i = 1
  /\ max_retries = 2
  /\ last_outcome = "ran"

\* C2 as stated: the above, and a slot whose attempt succeeded completes
\* without any error.
C2_Original ==
  /\ C2_SuccessfulDraw
  /\ Len(samples) = trial + 1 => pc # "raised"

C3_State ==
  /\ pc = "loop" => (PerTrialLists(trial) /\ trial <= n_trials /\ i <= max_retries)
  /\ pc \in {"dump", "anchored quantiles", "return", "done"} =>
       (trial = n_trials /\ PerTrialLists(n_trials))
  /\ pc = "done" =>
       /\ Len(results[1].param_samples) = n_trials
       /\ \A name \in ScalarMetricNames :
            Len(results[1].scalar_metrics[name]) = n_trials
       /\ \A name \in StateMetricNames :
            Len(results[1].state_metrics[name]) = n_trials
       /\ Len(results[1].last_valid_indices) = n_trials
  /\ error = "TooManyRetries" => i = max_retries

C3_Step ==
  /\ trial' # trial => (trial' = trial + 1 /\ i' = 0 /\ PerTrialLists(trial)')
  /\ i' # i => (i' = 0 \/ (i' = i + 1 /\ trial' = trial /\ i < max_retries))
  /\ results' # results => (pc' = "done" /\ trial = n_trials)

\* C3: the retry bound is per slot and no slot is skipped: a new slot starts
\* with no attempt used, TooManyRetries is raised only when the current slot
\* has used max_retries attempts, trial advances by one and only with one
\* more entry in every per-trial list, and mc_analysis returns only with
\* n_trials entries in each.
C3_PerSlotNoSkip == []C3_State /\ [][C3_Step]_vars

\* Both slots used a failing and a successful attempt, and the call returned
C3_Witness ==
  /\ pc = "done"
  /\ n_trials = 2
  /\ max_retries = 2
  /\ n_attempts = 4

----------------------------------------------------------------------------
(* Properties of the outcome of a call *)

\* C4 (as stated): a call ends by returning a bundle filled from all
\* n_trials trials, or by raising a runtime fault, TooManyRetries or an
\* invariant-violation fault (an AssertionError), and in no other way.
C4_Original ==
  /\ pc = "raised" => error \in {"RuntimeError", "TooManyRetries", "AssertionError"}
  /\ pc = "done" => (trial = n_trials /\ PerTrialLists(n_trials))

----------------------------------------------------------------------------
(* Properties of metric collection *)

\* C5 (as amended): every value held in a scalar-metric series is a
\* non-negative number, NaN or None, and None only in the series of a metric
\* that is not a timeline metric; no negative value is ever appended.
C5_ScalarValues ==
  \A name \in ScalarMetricNames :
    \A j \in 1..Len(scalar_metrics[name]) :
      LET x == scalar_metrics[name][j]
      IN  /\ x.k \in {"num", "nan", "none"}
          /\ x.k = "num" => x.v >= 0
          /\ name \in TimelineMetrics => x.k = "num"

\* Two trials completed, one of them with a takeoff metric of None
C5_Witness ==
  /\ pc = "loop"
  /\ trial = 2
  /\ scalar_metrics["full_automation_gns"] = <<None, Num(3)>>

\* C5 as stated: every value held in a scalar-metric series is a
\* non-negative number or NaN.
C5_Original ==
  \A name \in ScalarMetricNames :
    \A j \in 1..Len(scalar_metrics[name]) :
      LET x == scalar_metrics[name][j]
      IN  x.k = "nan" \/ (x.k = "num" /\ x.v >= 0)

\* The run in `model` reports a negative scalar metric (and no None timeline
\* metric, on which np.isnan raises first)
C6_NegativeMetric ==
  /\ \E name \in ScalarMetricNames :
       MetricValue(model, name).k = "num" /\ MetricValue(model, name).v < 0
  /\ \A name \in TimelineMetrics : MetricValue(model, name).k # "none"

\* The counterfactual run b shows universal automation at some timestep
C6_UniversalAutomation(b) ==
  \/ \E j \in 1..Len(b.goods) : b.goods[j] >= 10
  \/ \E j \in 1..Len(b.rnd) : b.rnd[j] >= 10

\* This step builds a counterfactual run and runs it to its end
C6_BaselineBuilt ==
  /\ pc = "anchor"
  /\ n_baseline_runs' = n_baseline_runs + 1
  /\ error' # "RuntimeError"

C6_Aborts ==
  /\ pc' = "raised"
  /\ error' = "AssertionError"
  /\ trial' = trial
  /\ i' = i
  /\ n_attempts' = n_attempts
  /\ UNCHANGED <<metrics_before_full_automation_values, last_valid_indices,
                 slow_takeoff_count, results>>

C6_Step ==
  /\ error = "AssertionError" => UNCHANGED vars
  /\ (pc = "collect" /\ C6_NegativeMetric) => C6_Aborts
  /\ (C6_BaselineBuilt /\ C6_UniversalAutomation(no_automation_model')) => C6_Aborts
  /\ metrics_before_full_automation_values' # metrics_before_full_automation_values =>
       (C6_BaselineBuilt /\ ~C6_UniversalAutomation(no_automation_model'))
  /\ n_baseline_runs' # n_baseline_runs =>
       (pc = "anchor" /\ model.timeline_metrics["automation_gns_100%"].k # "nan")

\* C6: a negative scalar metric, or a counterfactual run with an
\* automated-task fraction >= 1, raises an AssertionError out of mc_analysis
\* in the step that finds it: the slot is not retried, no later trial is
\* attempted and nothing follows. Every counterfactual run that is built is
\* checked before any year-anchored value of its trial is recorded.
C6_InvariantViolationAborts == [][C6_Step]_vars

\* The second trial's counterfactual run failed the assertion
C6_Witness ==
  /\ error = "AssertionError"
  /\ trial = 1
  /\ n_baseline_runs = 2
  /\ C6_UniversalAutomation(no_automation_model)

C7_State ==
  /\ \A name \in TimelineMetrics :
       \A j \in 1..Len(scalar_metrics[name]) : scalar_metrics[name][j].k # "nan"
  /\ pc \in {"anchor", "finish"} =>
       \A name \in TimelineMetrics :
         /\ model.timeline_metrics[name] = Last(samples).auto
         /\ Last(samples).auto.k = "nan" =>
              Last(scalar_metrics[name]) = Num(model.t_end)

C7_Step ==
  (pc = "anchor" /\ Last(samples).auto.k = "nan") =>
     /\ pc' = "finish"
     /\ n_baseline_runs' = n_baseline_runs
     /\ UNCHANGED metrics_before_full_automation_values

\* C7: no timeline-metric series ever holds NaN: a run whose timeline metric
\* is NaN contributes its t_end, the run's own value stays NaN, and the
\* anchor-event test of the same trial takes the event as not reached (no
\* counterfactual run, no year-anchored value).
C7_TimelineCensored == []C7_State /\ [][C7_Step]_vars

\* A trial that never reached the event, censored to the year its run ended
C7_Witness ==
  /\ pc = "finish"
  /\ model.timeline_metrics["automation_gns_100%"] = NaN
  /\ model.t_end = t_end + 5
  /\ Last(scalar_metrics["automation_gns_100%"]) = Num(t_end + 5)

\* The retained samples, among the first n, whose run reached the anchor event
ReachedSamples(n) ==
  SelectSeq(SubSeq(samples, 1, n), LAMBDA s : s.auto.k # "nan")

\* The trials whose year-anchored values are all recorded
C8_Recorded ==
  IF pc = "finish" THEN trial + 1
  ELSE IF pc \in {"loop", "dump", "anchored quantiles", "return", "done"}
    THEN trial
  ELSE -1

\* C8: between trials every (metric, offset-year) series holds exactly one
\* value per completed trial whose run reached the anchor event, the value
\* computed for that trial's event year minus the offset; trials that did not
\* reach it add nothing to any of the 6 x 5 series and build no
\* counterfactual run.
C8_AnchoredSeries ==
  /\ Cardinality(AnchoredKeys) = 30
  /\ C8_Recorded >= 0 =>
       /\ n_baseline_runs = Len(ReachedSamples(C8_Recorded))
       /\ \A key \in AnchoredKeys :
            LET series == metrics_before_full_automation_values[key]
                reached == ReachedSamples(C8_Recorded)
            IN  /\ Len(series) = Len(reached)
                /\ \A j \in 1..Len(series) :
                     series[j].year = reached[j].auto.v - key[2]

\* Two completed trials, one of which reached the anchor event
C8_Witness ==
  /\ pc = "loop"
  /\ trial = 2
  /\ Len(ReachedSamples(2)) = 1
  /\ samples[1].auto.k = "nan"

----------------------------------------------------------------------------
(* Properties of the slow-takeoff label *)

\* The completed trials that reached the automation event and for which a
\* 4-year doubling precedes a 1-year doubling on gwp[:t_idx]
C9_SlowTrials ==
  {j \in 1..Len(last_valid_indices) :
     /\ samples[j].auto.k # "nan"
     /\ n_year_doubling_before_m_year_doubling(
          SubSeq(state_metrics["gwp"][j], 1, last_valid_indices[j]),
          t_step, 4, 1) = "True"}

\* C9 (as stated): slow_takeoff_count counts exactly the completed trials
\* whose 'automation_gns_100%' is not NaN and whose gwp[:t_idx] has a 4-year
\* doubling before a 1-year doubling.
C9_Original ==
  pc = "loop" => slow_takeoff_count = Cardinality(C9_SlowTrials)

----------------------------------------------------------------------------
(* Properties of n_year_doubling_before_m_year_doubling *)

\* A k-year doubling occurs in the series: series[i] / series[i - d] >= 2
\* for some index i with i - d an index too, d = round(k / t_step)
HasDoubling(array, step, k) ==
  LET d == Delta(k, step)
  IN  \E j \in 1..Len(array) :
        j - d >= 1 /\ RatioAtLeast2(array[j], array[j - d])

\* C10 (as stated): the call raises no error, returns true when no m-year
\* doubling occurs in the series, and false when an m-year doubling occurs
\* and no n-year doubling does.
C10_Original ==
  d_pc # "call" =>
    /\ d_pc = "returned"
    /\ ~HasDoubling(d_array, d_step, d_m) => d_result = "True"
    /\ (HasDoubling(d_array, d_step, d_m) /\ ~HasDoubling(d_array, d_step, d_n))
         => d_result = "False"

\* Where both windows span at least one timestep the call does as C10 says
C10_WhereWindowsSpanAStep ==
  (Delta(d_n, d_step) >= 1 /\ Delta(d_m, d_step) >= 1) => C10_Original

\* The 0-based index of the first sample i with series[i] / series[i - d] >= 2,
\* d = round(k / t_step): the sample at which the first k-year doubling
\* completes; -1 when there is none
FirstCompletion(array, step, k) ==
  LET d == Delta(k, step)
      S == {h \in 0..(Len(array) - 1) :
              h - d >= 0 /\ RatioAtLeast2(array[h + 1], array[h - d + 1])}
  IN  IF S = {} THEN -1 ELSE CHOOSE h \in S : \A g \in S : h <= g

\* The 0-based index of the first sample j with series[j + d] / series[j] >= 2:
\* the sample at which the first k-year doubling starts; -1 when there is none
FirstWindowStart(array, step, k) ==
  LET d == Delta(k, step)
      S == {h \in 0..(Len(array) - 1) :
              h + d <= Len(array) - 1
              /\ RatioAtLeast2(array[h + d + 1], array[h + 1])}
  IN  IF S = {} THEN -1 ELSE CHOOSE h \in S : \A g \in S : h <= g

\* The call returned and both doublings occur in the series
C11_BothOccur ==
  /\ d_pc = "returned"
  /\ HasDoubling(d_array, d_step, d_n)
  /\ HasDoubling(d_array, d_step, d_m)

\* C11 (as stated): when both doublings occur the call returns true iff
\* (i_m - i_n) * step >= n, i_k being the index of the sample at which the
\* first k-year doubling completes.
C11_Original ==
  C11_BothOccur =>
    (d_result = "True" <=>
       (FirstCompletion(d_array, d_step, d_m)
          - FirstCompletion(d_array, d_step, d_n)) * d_step.num
         >= d_n * d_step.den)

\* C11 (as amended): when both doublings occur the call returns true iff
\* (j_m - j_n) * step >= n, j_k being the index of the sample at which the
\* first k-year doubling starts, that is the first j with
\* series[j + round(k/step)] / series[j] >= 2; the sample at which it
\* completes is j_k + round(k/step).
C11_WindowStartIndices ==
  C11_BothOccur =>
    /\ d_result \in {"True", "False"}
    /\ d_result = "True" <=>
         (FirstWindowStart(d_array, d_step, d_m)
            - FirstWindowStart(d_array, d_step, d_n)) * d_step.num
           >= d_n * d_step.den
    /\ \A k \in {d_n, d_m} :
         FirstCompletion(d_array, d_step, k)
           = FirstWindowStart(d_array, d_step, k) + Delta(k, d_step)

\* Both doublings occur, the m-year window is the longer one, and the call
\* returns false where the completion indices are at least n years apart
C11_Witness ==
  /\ C11_BothOccur
  /\ Delta(d_m, d_step) > Delta(d_n, d_step)
  /\ d_result = "False"
  /\ (FirstCompletion(d_array, d_step, d_m)
        - FirstCompletion(d_array, d_step, d_n)) * d_step.num
       >= d_n * d_step.den

----------------------------------------------------------------------------
(* Properties of the slow-takeoff label, continued *)

\* model.gwp[:model.t_idx] of the trial being finished
C12_Prefix == SubSeq(model.gwp, 1, model.t_idx)

\* This step labels the trial slow takeoff, and its valid growth prefix
\* contains a 1-year doubling
C12_LabeledSlow ==
  /\ pc = "finish"
  /\ slow_takeoff_count' = slow_takeoff_count + 1
  /\ HasDoubling(C12_Prefix, model.t_step, 1)

\* Timesteps from the end of the first 4-year doubling window (its last
\* sample) to the start of the first 1-year doubling window
C12_Gap ==
  FirstWindowStart(C12_Prefix, model.t_step, 1)
    - (FirstWindowStart(C12_Prefix, model.t_step, 4) + Delta(4, model.t_step))

C12_OriginalStep ==
  C12_LabeledSlow =>
    /\ HasDoubling(C12_Prefix, model.t_step, 4)
    /\ C12_Gap * model.t_step.num >= 4 * model.t_step.den

\* C12 (as stated): for every trial labeled slow takeoff whose valid growth
\* prefix contains a 1-year doubling, the first 4-year doubling window ends
\* at least 4 years before the first 1-year doubling window starts.
C12_Original == [][C12_OriginalStep]_vars

C12_Step ==
  C12_LabeledSlow =>
    /\ HasDoubling(C12_Prefix, model.t_step, 4)
    /\ C12_Gap >= 0
    /\ (FirstWindowStart(C12_Prefix, model.t_step, 1)
          - FirstWindowStart(C12_Prefix, model.t_step, 4)) * model.t_step.num
         >= 4 * model.t_step.den

\* C12 (as amended): for every trial labeled slow takeoff whose valid growth
\* prefix contains a 1-year doubling, the prefix contains a 4-year doubling
\* and the first 4-year doubling window ends no later than the first 1-year
\* doubling window starts: the 4-year window starts at least 4 years before
\* the 1-year window does.
C12_SlowTakeoffWindows == [][C12_Step]_vars

\* The predicate on its own, for any step and any n: where both doublings
\* occur and it returns true, the first n-year window ends no later than the
\* first m-year window starts
C12_AnyStep ==
  (C11_BothOccur /\ d_result = "True") =>
    FirstWindowStart(d_array, d_step, d_m)
      >= FirstWindowStart(d_array, d_step, d_n) + Delta(d_n, d_step)

\* A trial labeled slow takeoff whose 1-year doubling starts at the very
\* sample that completes its 4-year doubling
C12_Witness ==
  /\ pc = "loop"
  /\ trial = 1
  /\ slow_takeoff_count = 1
  /\ last_valid_indices = <<6>>
  /\ state_metrics["gwp"] = << <<2, 3, 3, 3, 4, 8>> >>

----------------------------------------------------------------------------
(* Properties of the takeoff-probability tables *)

\* Two quotients are the same value (x/0 is nan for x = 0, inf otherwise)
SameQuotient(a, b) ==
  IF a.den = 0 \/ b.den = 0
    THEN a.den = 0 /\ b.den = 0 /\ (a.num = 0 <=> b.num = 0)
    ELSE a.num * b.den = b.num * a.den

\* The completed trials of the bundle r for which the predicate holds on the
\* valid growth prefix
C13_Holding(r, n, m) ==
  {j \in 1..r.n_trials :
     n_year_doubling_before_m_year_doubling(
       SubSeq(r.state_metrics["gwp"][j], 1, r.last_valid_indices[j]),
       r.t_step, n, m) = "True"}

\* The trials of the bundle r that reached the automation event before the
\* horizon
C13_Reached(r) ==
  {j \in 1..r.n_trials :
     r.scalar_metrics["automation_gns_100%"][j].v < r.t_end}

\* The table is as the claim says
C13_AsClaimed(table, r) ==
  \A cell \in DOMAIN table :
     IF cell[1] > cell[2]
       THEN /\ table[cell].k = "quotient"
            /\ SameQuotient(table[cell],
                 Quotient(Cardinality(C13_Holding(r, cell[1], cell[2])),
                          Cardinality(C13_Reached(r))))
       ELSE table[cell] = NaN

\* The table of write_takeoff_probability_table is as the claim says
C13_Standalone ==
  (takeoff_probability_table.built /\ takeoff_probability_table.error = "")
    => C13_AsClaimed(takeoff_probability_table.table, results[1])

\* The table embedded in the report is as the claim says
C13_Embedded ==
  (report.built /\ report.error = "")
    => C13_AsClaimed(report.takeoff_probability_table, results[1])

\* C13 (as stated): in both tables the entry for n > m is the number of
\* completed trials for which the predicate holds on the valid growth prefix,
\* divided by the number of trials that reached the automation event before
\* the horizon; the entries for n <= m are NaN.
C13_Original == C13_Standalone /\ C13_Embedded

----------------------------------------------------------------------------
(* Properties of the scalar quantile/mean table *)

\* The cell shows a raw number at or above the horizon
C14_RawAtOrAboveHorizon(cell) ==
  cell.k = "quotient" /\ cell.num >= t_end * cell.den

\* Every value of the series equals the horizon (and there is one)
C14_AllAtHorizon(series) ==
  /\ series # <<>>
  /\ \A j \in 1..Len(series) : series[j] = Num(t_end)

\* The quantile rows do as the claim says
C14_QuantileRows ==
  pc = "done" =>
    \A name \in ScalarMetricNames : \A q \in quantiles :
       LET cell == results[1].metrics_quantiles.quantile_rows[q][name]
       IN  /\ ~C14_RawAtOrAboveHorizon(cell)
           /\ C14_AllAtHorizon(results[1].scalar_metrics[name])
                => cell = Sentinel

\* The mean row does as the claim says
C14_MeanRow ==
  pc = "done" =>
    \A name \in ScalarMetricNames :
       LET cell == results[1].metrics_quantiles.mean_row[name]
       IN  /\ ~C14_RawAtOrAboveHorizon(cell)
           /\ C14_AllAtHorizon(results[1].scalar_metrics[name])
                => cell = Sentinel

\* C14 (as stated): in the scalar quantile/mean table a series whose values
\* all equal the horizon shows the sentinel in every quantile row and in the
\* mean row, and no cell shows a raw number at or above the horizon.
C14_Original == C14_QuantileRows /\ C14_MeanRow

----------------------------------------------------------------------------
(* Properties of the retry loop, continued *)

\* The failures of an attempt that are runtime faults raised by constructing
\* or running the primary simulation
C15_RuntimeFaults ==
  {"RuntimeError in constructor", "RuntimeError in run_simulation"}

\* The other failures of an attempt: of the sampler draw, or an assertion
\* failing inside the simulation
C15_OtherFailures == {"sampler raised", "AssertionError in run_simulation"}

C15_Step ==
  /\ (pc = "loop" /\ i' = i + 1) => last_outcome' \in C15_RuntimeFaults
  /\ (pc = "loop" /\ last_outcome' \in C15_RuntimeFaults /\ n_attempts' # n_attempts)
       => (i' = i + 1 /\ pc' = "loop")
  /\ (pc = "loop" /\ last_outcome' \in C15_OtherFailures
        /\ (n_attempts' # n_attempts \/ i' # i))
       => (pc' = "raised" /\ i' = i)

\* C15 (as stated): a failing attempt consumes a retry iff its failure is a
\* runtime fault raised by constructing or running the primary simulation;
\* any other failure inside the attempt aborts the call without consuming a
\* retry.
C15_Original == [][C15_Step]_vars

----------------------------------------------------------------------------
(* Properties of get_value_at_year *)

\* What the call that returned computes from the run alone
C16_ValueFrom(run) ==
  IF g_pc = "YearsBeforeAgiMetric returned"
    THEN [k |-> "power of 2", v |-> Interpolate(run, g_year)]
    ELSE LET d == Interpolate(run, g_year + 1) - Interpolate(run, g_year)
         IN  IF d = 0 THEN DoublingTimeSentinel ELSE Quotient(1, d)

\* C16: get_value_at_year of both year-anchored metric classes computes its
\* result from the counterfactual baseline run if the year is before the
\* primary run's t_start and from the primary run otherwise, also at the year
\* t_start itself.
C16_BaselineBeforeStart ==
  g_pc \in {"YearsBeforeAgiMetric returned",
            "DoublingYearsBeforeFullAutomationMetric returned"} =>
    g_value = IF g_year < g_model.t_start
                THEN C16_ValueFrom(g_no_automation_model)
                ELSE C16_ValueFrom(g_model)

\* A call at the primary run's start year, where the two runs differ
C16_Witness ==
  /\ g_pc = "YearsBeforeAgiMetric returned"
  /\ g_year = g_model.t_start
  /\ g_no_automation_model.t_start = g_model.t_start - 1
  /\ Interpolate(g_model, g_year) # Interpolate(g_no_automation_model, g_year)
  /\ g_value.v = Interpolate(g_model, g_year)

\* The run the doubling-time call reads, and the log2 of the ratio of its
\* interpolated values at year + 1 and at year
C17_Run ==
  IF g_year < g_model.t_start THEN g_no_automation_model ELSE g_model

C17_Log2Ratio ==
  Interpolate(C17_Run, g_year + 1) - Interpolate(C17_Run, g_year)

\* C17: DoublingYearsBeforeFullAutomationMetric.get_value_at_year returns
\* the finite sentinel 1e10 when the interpolated values at year + 1 and at
\* year are equal (the log2 of their ratio is 0), not a quotient by zero
\* (infinity or NaN), and 1 / log2(value(year + 1) / value(year)) in every
\* other case.
C17_FlatSeriesSentinel ==
  g_pc = "DoublingYearsBeforeFullAutomationMetric returned" =>
    /\ C17_Log2Ratio = 0 => g_value = DoublingTimeSentinel
    /\ C17_Log2Ratio # 0 => g_value = Quotient(1, C17_Log2Ratio)
    /\ g_value.k = "quotient" => g_value.den # 0

\* A call on a perfectly flat primary series returned the sentinel
C17_Witness ==
  /\ g_pc = "DoublingYearsBeforeFullAutomationMetric returned"
  /\ g_year = g_model.t_start
  /\ g_model.log2_vals = <<1, 1, 1>>
  /\ g_value = DoublingTimeSentinel

----------------------------------------------------------------------------
(* Properties of the counts of a returned bundle *)

\* C18 (as stated): in every returned bundle slow_takeoff_count is at most
\* n_finished_trials, the number of trials whose recorded
\* 'automation_gns_100%' is below the horizon, so that the slow-takeoff
\* probability of the report is at most 100%; a run in which no trial reaches
\* the event has slow_takeoff_count = 0.
C18_Original ==
  /\ pc = "done" =>
       /\ results[1].n_finished_trials
            = CountBelow(results[1].scalar_metrics["automation_gns_100%"], t_end)
       /\ results[1].slow_takeoff_count <= results[1].n_finished_trials
       /\ (\A j \in 1..Len(samples) : samples[j].auto = NaN)
            => results[1].slow_takeoff_count = 0
  /\ (report.built /\ report.error = "") =>
       report.slow_takeoff_probability.num <= report.slow_takeoff_probability.den

\* The trial's run reached the anchor event: its timeline value is not NaN
C19_Contributes(j) == samples[j].auto.k # "nan"

\* The trial is counted in n_finished_trials: its recorded value is below the
\* engine's t_end
C19_Finished(r, j) == r.scalar_metrics["automation_gns_100%"][j].v < r.t_end

\* C19 (as stated): a trial contributes to the year-anchored series iff it is
\* counted in n_finished_trials, and in every returned bundle the number of
\* values behind each year-anchored quantile column equals n_finished_trials.
C19_Original ==
  pc = "done" =>
    /\ \A j \in 1..results[1].n_trials :
         C19_Contributes(j) <=> C19_Finished(results[1], j)
    /\ \A key \in AnchoredKeys :
         results[1].metrics_before_full_automation_quantiles[key]
           = results[1].n_finished_trials

\* The half of C19 that the censoring of a NaN timeline metric gives: a trial
\* counted in n_finished_trials contributes to the year-anchored series
C19_FinishedContributes ==
  pc = "done" =>
    \A j \in 1..results[1].n_trials :
       C19_Finished(results[1], j) => C19_Contributes(j)

----------------------------------------------------------------------------
(* Properties of the counterfactual run *)

\* This step builds a counterfactual run that does not run to its end
C20_BaselineFaults ==
  /\ pc = "anchor"
  /\ n_baseline_runs' = n_baseline_runs + 1
  /\ pc' # "finish"
  /\ error' # "AssertionError"

\* The sample of the slot and its scalar and state values are recorded, the
\* rest of the slot is not
C20_HalfRecorded ==
  /\ Len(samples) = trial + 1
  /\ sample = <<Last(samples)>>
  /\ model.ran
  /\ \A name \in ScalarMetricNames : Len(scalar_metrics[name]) = trial + 1
  /\ \A name \in StateMetricNames : Len(state_metrics[name]) = trial + 1
  /\ Len(last_valid_indices) = trial
  /\ \A key \in AnchoredKeys :
       Len(metrics_before_full_automation_values[key]) < n_baseline_runs'

C20_Step ==
  /\ C20_BaselineFaults =>
       /\ pc' = "raised"
       /\ error' = "RuntimeError"
       /\ i' = i /\ trial' = trial /\ n_attempts' = n_attempts
       /\ UNCHANGED accumulators
       /\ C20_HalfRecorded
  /\ error = "RuntimeError" => UNCHANGED vars
  /\ (error' = "RuntimeError" /\ error # "RuntimeError") => pc = "anchor"

\* C20: a runtime fault of the counterfactual baseline run is not retried: it
\* leaves mc_analysis as a RuntimeError in the step that raises it, no
\* attempt and no trial follows, and the sample and the scalar and state
\* values of the trial stay appended to the accumulators. A RuntimeError
\* leaves mc_analysis in no other way.
C20_BaselineFaultAborts == [][C20_Step]_vars

\* The second trial's counterfactual run raised after its primary run
\* succeeded on the second attempt
C20_Witness ==
  /\ error = "RuntimeError"
  /\ trial = 1
  /\ i = 1
  /\ Len(samples) = 2
  /\ Len(scalar_metrics["automation_gns_100%"]) = 2
  /\ Len(state_metrics["gwp"]) = 2
  /\ Len(last_valid_indices) = 1

\* mc_analysis has returned or raised
C21_Terminated == pc \in {"done", "raised"}

\* The primary attempts and the counterfactual runs made so far
C21_Bounds ==
  /\ n_attempts <= n_trials * max_retries
  /\ n_baseline_runs <= n_trials
  /\ n_baseline_runs <= n_attempts

\* A call with max_retries = 0 and at least one trial
C21_NoRetries ==
  (max_retries = 0 /\ n_trials >= 1) =>
    /\ n_attempts = 0
    /\ n_baseline_runs = 0
    /\ samples = <<>>
    /\ pc \in {"loop", "raised"}
    /\ pc = "raised" => error = "TooManyRetries"

\* The statements mc_analysis can still run: the retry loop has
\* max_retries - i iterations left in this trial slot, a slot is at most
\* max_retries iterations and four steps, and four steps follow the trial
\* loop
C21_Measure ==
  CASE pc = "loop" -> 4 + (n_trials - trial) * (max_retries + 4) - i
    [] pc = "collect" -> 7 + (n_trials - trial - 1) * (max_retries + 4)
    [] pc = "anchor" -> 6 + (n_trials - trial - 1) * (max_retries + 4)
    [] pc = "finish" -> 5 + (n_trials - trial - 1) * (max_retries + 4)
    [] pc = "dump" -> 3
    [] pc = "anchored quantiles" -> 2
    [] pc = "return" -> 1
    [] OTHER -> 0

\* The statements left are a natural number, at most what n_trials slots
\* and the four steps after them take
C21_MeasureInRange == C21_Measure \in 0..(4 + n_trials * (max_retries + 4))

\* Every statement leaves fewer to run, and after the return or the raise
\* no statement of mc_analysis runs
C21_Step ==
  /\ (~C21_Terminated) => (C21_Measure' < C21_Measure)
  /\ C21_Terminated => UNCHANGED mc_vars

\* C21: where every sampler draw and every simulation construction or run
\* returns or raises, no call of mc_analysis runs for ever: the statements
\* it has left are a bounded natural number that every statement it runs
\* makes smaller, and it runs nothing after it returned or raised. It makes
\* at most n_trials * max_retries primary simulation attempts and at most
\* n_trials counterfactual runs, and a call with max_retries = 0 and
\* n_trials >= 1 makes no attempt and can end only in TooManyRetries.
C21_Terminates ==
  /\ []C21_Bounds
  /\ []C21_NoRetries
  /\ []C21_MeasureInRange
  /\ [][C21_Step]_vars

\* With the statement that comes next always taken, the call does return or
\* raise, and with max_retries = 0 and n_trials >= 1 it raises TooManyRetries
C21_EventuallyTerminated ==
  /\ <>C21_Terminated
  /\ (max_retries = 0 /\ n_trials >= 1) ~> (error = "TooManyRetries")

\* A call that returned after using every attempt it is allowed and one
\* counterfactual run per trial
C21_Witness ==
  /\ pc = "done"
  /\ n_trials = MaxTrials
  /\ max_retries = MaxRetries
  /\ n_attempts = n_trials * max_retries
  /\ n_baseline_runs = n_trials

====
